---- MODULE Spec2Model ----
(***************************************************************************)
(* A model of the OpenSearch installer (open_search_install.py) and        *)
(* remover (open_search_remove.py).                                        *)
(*                                                                         *)
(* Text is modelled as a sequence of tokens.  A token is either one of the *)
(* characters the code looks at (newline, blank, '#', ':'), one of the     *)
(* strings the code searches for (the three setting names, the two heap    *)
(* flag prefixes), or a word: a run of other characters.  A word never     *)
(* begins or ends with white space and holds no '#', ':', newline, setting *)
(* name or flag prefix, so every string test of the code (strip, split,    *)
(* startswith, in, slicing off a prefix) is decided by the tokens.         *)
(***************************************************************************)
EXTENDS Integers, Sequences, FiniteSets, TLC

VARIABLES
    config_file,    \* content of OPENSEARCH_CONFIG_FILE (a text)
    config_orig,    \* its content before the first opensearch_config_update
    config_once,    \* its content after the first opensearch_config_update (once config_runs > 0)
    config_runs,    \* number of completed opensearch_config_update calls
    config_report,  \* what the last verify_config reported
    jvm_file,       \* content of OPENSEARCH_JVM_FILE (a text)
    jvm_orig,       \* its content before the first set_jvm_heap
    jvm_once,       \* its content after the first set_jvm_heap (once jvm_runs > 0)
    jvm_runs,       \* number of completed set_jvm_heap calls
    jvm_report,     \* what the last check_jvm_heap returned
    attempt,        \* verify_installation: the loop counter
    vi_pc,          \* verify_installation: "polling", "returned_true" or "raised"
    vi_checks,      \* verify_installation: rounds of the three checks performed
    vi_failed,      \* verify_installation: rounds in which some check failed
    vi_last,        \* verify_installation: the results of the last round
    rm_pc,          \* run_removal: 0 at check_root, i at its i-th call, 9 at its end
    rm_exited,      \* run_removal: sys.exit(1) was called
    is_root,        \* run_removal: os.geteuid() = 0
    svc_active,     \* per service: systemctl is-active says "active"
    dir_exists,     \* per service: its configuration directory exists
    rm_log,         \* run_removal: the handlers called so far, with what they did
    pc,             \* run_installation: the step to run next, "done" or "aborted"
    inst_log,       \* run_installation: the steps run so far, with their outcome
    rpm_file,       \* the downloaded package: "absent", "empty" or "present"
    installed,      \* the packages installed
    enabled,        \* the services enabled
    started,        \* the services started
    proc_main,      \* the package manager's shell: "none", "running", "zombie", "gone"
    children,       \* the other processes that descend from that shell (their kinds)
    return_code,    \* the exit status of that shell
    elapsed         \* seconds the monitor loop has waited

cfgVars == <<config_file, config_orig, config_once, config_runs, config_report>>
jvmVars == <<jvm_file, jvm_orig, jvm_once, jvm_runs, jvm_report>>
pollVars == <<attempt, vi_pc, vi_checks, vi_failed, vi_last>>
rmVars == <<rm_pc, rm_exited, is_root, svc_active, dir_exists, rm_log>>
instVars == <<pc, inst_log, rpm_file, installed, enabled, started,
              proc_main, children, return_code, elapsed>>
vars == <<cfgVars, jvmVars, pollVars, rmVars, instVars>>

(***************************************************************************)
(* Bounds of the model.                                                    *)
(***************************************************************************)
MaxLines == 3   \* lines of an initial file
MaxRuns == 2    \* successive patch runs on one file

NoReport == [none |-> TRUE]  \* no verification has run yet

(***************************************************************************)
(* Python string operations, on token sequences.                           *)
(***************************************************************************)
NL == "\n"
SP == " "
Whitespace == {SP, NL, "\t"}

\* s.startswith(p)
StartsWith(s, p) == Len(s) >= Len(p) /\ SubSeq(s, 1, Len(p)) = p

\* p in s
Contains(s, p) ==
    \E i \in 1..(Len(s) - Len(p) + 1) : SubSeq(s, i, i + Len(p) - 1) = p

\* index of the first occurrence of p in s from index i on, 0 when there is none
RECURSIVE FindFrom(_, _, _)
FindFrom(s, p, i) ==
    IF i + Len(p) - 1 > Len(s) THEN 0
    ELSE IF SubSeq(s, i, i + Len(p) - 1) = p THEN i
    ELSE FindFrom(s, p, i + 1)

\* index of the first occurrence of p in s, 0 when there is none (s.find(p) + 1)
Find(s, p) == FindFrom(s, p, 1)

RECURSIVE LStrip(_)
LStrip(s) == IF s # <<>> /\ Head(s) \in Whitespace THEN LStrip(Tail(s)) ELSE s

RECURSIVE RStrip(_)
RStrip(s) ==
    IF s # <<>> /\ s[Len(s)] \in Whitespace THEN RStrip(SubSeq(s, 1, Len(s) - 1)) ELSE s

\* s.strip()
Strip(s) == LStrip(RStrip(s))

\* s.split('\n'): the pieces between newlines; one piece more than newlines
RECURSIVE SplitNL(_)
SplitNL(s) ==
    LET i == Find(s, <<NL>>) IN
    IF i = 0 THEN <<s>>
    ELSE <<SubSeq(s, 1, i - 1)>> \o SplitNL(SubSeq(s, i + 1, Len(s)))

\* '\n'.join(lines)
RECURSIVE JoinNL(_)
JoinNL(lines) ==
    IF lines = <<>> THEN <<>>
    ELSE IF Len(lines) = 1 THEN lines[1]
    ELSE lines[1] \o <<NL>> \o JoinNL(Tail(lines))

\* f.readlines(): the lines with their newline; the last may have none
RECURSIVE ReadLines(_)
ReadLines(s) ==
    LET i == Find(s, <<NL>>) IN
    IF s = <<>> THEN <<>>
    ELSE IF i = 0 THEN <<s>>
    ELSE <<SubSeq(s, 1, i)>> \o ReadLines(SubSeq(s, i + 1, Len(s)))

\* f.writelines(lines) / ''.join(lines)
RECURSIVE Concat(_)
Concat(lines) == IF lines = <<>> THEN <<>> ELSE Head(lines) \o Concat(Tail(lines))

(***************************************************************************)
(* The settings of opensearch.yml.                                         *)
(***************************************************************************)
NetworkHost == "network.host"
DiscoveryType == "discovery.type"
SecurityDisabled == "plugins.security.disabled"

\* verify_config: required_settings, a key (the text before ': ') to its value
required_settings ==
    (<<NetworkHost>> :> <<"0.0.0.0">>)
    @@ (<<DiscoveryType>> :> <<"single-node">>)
    @@ (<<SecurityDisabled>> :> <<"false">>)

\* new_config with the last setting written without the blank after the colon
new_config_no_blank ==
    <<NL>>
    \o <<"#", SP, "Bind to the correct network interface. Use 0.0.0.0", NL>>
    \o <<"#", SP, "to include all available interfaces or specify an IP address", NL>>
    \o <<"#", SP, "assigned to a specific interface.", NL>>
    \o <<NetworkHost, ":", SP, "0.0.0.0", NL>>
    \o <<NL>>
    \o <<"#", SP, "Unless you have already configured a cluster, you should set", NL>>
    \o <<"#", SP, DiscoveryType, SP, "to single-node, or the bootstrap checks will", NL>>
    \o <<"#", SP, "fail when you try to start the service.", NL>>
    \o <<DiscoveryType, ":", SP, "single-node", NL>>
    \o <<NL>>
    \o <<"#", SP, "If you previously disabled the Security plugin in opensearch.yml,", NL>>
    \o <<"#", SP, "be sure to re-enable it. Otherwise you can skip this setting.", NL>>
    \o <<SecurityDisabled, ":", "false", NL>>

\* opensearch_config_update: the block appended to the file
new_config ==
    <<NL>>
    \o <<"#", SP, "Bind to the correct network interface. Use 0.0.0.0", NL>>
    \o <<"#", SP, "to include all available interfaces or specify an IP address", NL>>
    \o <<"#", SP, "assigned to a specific interface.", NL>>
    \o <<NetworkHost, ":", SP, "0.0.0.0", NL>>
    \o <<NL>>
    \o <<"#", SP, "Unless you have already configured a cluster, you should set", NL>>
    \o <<"#", SP, DiscoveryType, SP, "to single-node, or the bootstrap checks will", NL>>
    \o <<"#", SP, "fail when you try to start the service.", NL>>
    \o <<DiscoveryType, ":", SP, "single-node", NL>>
    \o <<NL>>
    \o <<"#", SP, "If you previously disabled the Security plugin in opensearch.yml,", NL>>
    \o <<"#", SP, "be sure to re-enable it. Otherwise you can skip this setting.", NL>>
    \o <<SecurityDisabled, ":", SP, "false", NL>>

\* the test of line 481 made for network.host alone
HasSetting_network_only(line) == Contains(line, <<NetworkHost, ":">>)

\* the test of line 481: the line holds one of the settings followed by ':'
HasSetting(line) ==
    \E setting \in {<<NetworkHost, ":">>, <<DiscoveryType, ":">>, <<SecurityDisabled, ":">>} :
        Contains(line, setting)

\* the test of line 484: a comment line that names one of the settings
IsSettingComment(line) ==
    /\ StartsWith(Strip(line), <<"#">>)
    /\ \E text \in {<<NetworkHost>>, <<DiscoveryType>>, <<SecurityDisabled>>} :
        Contains(line, text)

\* the filter loop of opensearch_config_update, from `lines` on with `skip_next`
RECURSIVE filtered_lines(_, _)
filtered_lines(lines, skip_next) ==
    IF lines = <<>> THEN <<>>
    ELSE IF skip_next THEN filtered_lines(Tail(lines), FALSE)
    ELSE IF HasSetting(Head(lines)) THEN filtered_lines(Tail(lines), TRUE)
    ELSE IF IsSettingComment(Head(lines)) THEN filtered_lines(Tail(lines), FALSE)
    ELSE <<Head(lines)>> \o filtered_lines(Tail(lines), FALSE)

\* the content opensearch_config_update writes for the content it read
updated_config(existing_config) ==
    Strip(JoinNL(filtered_lines(SplitNL(existing_config), FALSE))) \o new_config

\* the parse loop of verify_config keeping the first value found for a key
RECURSIVE found_settings_first(_, _)
found_settings_first(lines, found) ==
    IF lines = <<>> THEN found
    ELSE
        LET line == Strip(Head(lines))
            i == Find(line, <<":", SP>>)
            key == SubSeq(line, 1, i - 1)
            value == SubSeq(line, i + 2, Len(line))
        IN  IF /\ line # <<>>
               /\ ~StartsWith(line, <<"#">>)
               /\ i # 0
               /\ key \in DOMAIN required_settings
               /\ key \notin DOMAIN found
            THEN found_settings_first(Tail(lines),
                    [k \in (DOMAIN found) \cup {key} |-> IF k = key THEN value ELSE found[k]])
            ELSE found_settings_first(Tail(lines), found)

\* the parse loop of verify_config: found_settings after `lines`, starting from `found`
RECURSIVE found_settings(_, _)
found_settings(lines, found) ==
    IF lines = <<>> THEN found
    ELSE
        LET line == Strip(Head(lines))
            i == Find(line, <<":", SP>>)
            key == SubSeq(line, 1, i - 1)
            value == SubSeq(line, i + 2, Len(line))
        IN  IF /\ line # <<>>
               /\ ~StartsWith(line, <<"#">>)
               /\ i # 0
               /\ key \in DOMAIN required_settings
            THEN found_settings(Tail(lines),
                    [k \in (DOMAIN found) \cup {key} |-> IF k = key THEN value ELSE found[k]])
            ELSE found_settings(Tail(lines), found)

\* what verify_config reports for a content: the keys it prints as missing, the
\* keys it prints as incorrect, and its return value
verify_config(config_content) ==
    LET found == found_settings(SplitNL(config_content), <<>>)
        missing == {key \in DOMAIN required_settings : key \notin DOMAIN found}
        mismatched == {key \in DOMAIN required_settings :
                          key \in DOMAIN found /\ found[key] # required_settings[key]}
    IN  [missing |-> missing, mismatched |-> mismatched,
         all_correct |-> (missing = {} /\ mismatched = {})]

(***************************************************************************)
(* The heap flags of jvm.options.                                          *)
(***************************************************************************)
Xms == "-Xms"
Xmx == "-Xmx"

\* the test of line 520: the line is kept
IsNotHeapLine(line) ==
    ~StartsWith(Strip(line), <<Xms>>) /\ ~StartsWith(Strip(line), <<Xmx>>)

\* the content set_jvm_heap writes for the content it read
new_lines(content) ==
    Concat(SelectSeq(ReadLines(content), IsNotHeapLine)
           \o <<<<Xms, "8g", NL>>, <<Xmx, "8g", NL>>>>)

\* the parse loop of check_jvm_heap: found_settings after `lines`
RECURSIVE found_heap(_, _)
found_heap(lines, found) ==
    IF lines = <<>> THEN found
    ELSE
        LET line == Strip(Head(lines)) IN
        IF StartsWith(line, <<Xms>>)
        THEN found_heap(Tail(lines),
                [k \in (DOMAIN found) \cup {Xms} |-> IF k = Xms THEN Tail(line) ELSE found[k]])
        ELSE IF StartsWith(line, <<Xmx>>)
        THEN found_heap(Tail(lines),
                [k \in (DOMAIN found) \cup {Xmx} |-> IF k = Xmx THEN Tail(line) ELSE found[k]])
        ELSE found_heap(Tail(lines), found)

\* the return value of check_jvm_heap for a content
check_jvm_heap(content) ==
    LET found == found_heap(ReadLines(content), <<>>) IN
    \A key \in {Xms, Xmx} : key \in DOMAIN found /\ found[key] = <<"8g">>

(***************************************************************************)
(* The files the model starts from: up to MaxLines lines drawn from a pool *)
(* of the shapes of line the code tells apart, the last line with or       *)
(* without its newline.                                                    *)
(***************************************************************************)
LineSeqs(pool) == UNION {[1..n -> pool] : n \in 0..MaxLines}

ConfigLinePool ==
    { <<>>,
      <<SP, "cluster.name", ":", SP, "my-application">>,
      <<"#", SP, "a comment">>,
      <<NetworkHost, ":", SP, "0.0.0.0">>,
      <<NetworkHost, ":", SP, "127.0.0.1">>,
      <<DiscoveryType, ":", SP, "single-node">>,
      <<SecurityDisabled, ":", SP, "false">>,
      <<"#", NetworkHost, ":", SP, "192.168.0.1">>,
      <<"http.", NetworkHost, ":", SP, "x">> }

ConfigInputs ==
    {JoinNL(ls) \o end : ls \in LineSeqs(ConfigLinePool), end \in {<<>>, <<NL>>}}

JvmLinePool ==
    { <<>>,
      <<"-other">>,
      <<"#", SP, "heap size">>,
      <<Xms, "2g">>,
      <<Xmx, "2g">>,
      <<SP, Xms, "1g">>,
      <<Xms, "8g">>,
      <<Xmx, "8g">> }

JvmInputs ==
    {JoinNL(ls) \o end : ls \in LineSeqs(JvmLinePool), end \in {<<>>, <<NL>>}}

(***************************************************************************)
(* Patching and verifying opensearch.yml.                                  *)
(***************************************************************************)
CfgIdle ==
    /\ config_file = <<>>
    /\ config_orig = <<>>
    /\ config_once = <<>>
    /\ config_runs = 0
    /\ config_report = NoReport

JvmIdle ==
    /\ jvm_file = <<>>
    /\ jvm_orig = <<>>
    /\ jvm_once = <<>>
    /\ jvm_runs = 0
    /\ jvm_report = NoReport

PollIdle ==
    /\ attempt = 0
    /\ vi_pc = "idle"
    /\ vi_checks = 0
    /\ vi_failed = 0
    /\ vi_last = <<>>

RmIdle ==
    /\ rm_pc = 0
    /\ rm_exited = FALSE
    /\ is_root = TRUE
    /\ svc_active = <<>>
    /\ dir_exists = <<>>
    /\ rm_log = <<>>

InstIdle ==
    /\ pc = "idle"
    /\ inst_log = <<>>
    /\ rpm_file = "absent"
    /\ installed = {}
    /\ enabled = {}
    /\ started = {}
    /\ proc_main = "none"
    /\ children = {}
    /\ return_code = 0
    /\ elapsed = 0

\* opensearch_config_update: read, filter, append the block, write, verify
ConfigUpdate ==
    /\ config_file' = updated_config(config_file)
    /\ config_once' = IF config_runs = 0 THEN config_file' ELSE config_once
    /\ config_runs' = config_runs + 1
    /\ config_report' = verify_config(config_file')
    /\ UNCHANGED config_orig

\* a call of opensearch_config_update on its own, on the file as it is
config_update_call ==
    /\ config_runs < MaxRuns
    /\ ConfigUpdate
    /\ UNCHANGED <<jvmVars, pollVars, rmVars, instVars>>

\* --checkconfig: verify_config alone
checkconfig ==
    /\ config_report' = verify_config(config_file)
    /\ UNCHANGED <<config_file, config_orig, config_once, config_runs>>
    /\ UNCHANGED <<jvmVars, pollVars, rmVars, instVars>>

InitConfig ==
    /\ config_file \in ConfigInputs
    /\ config_orig = config_file
    /\ config_once = <<>>
    /\ config_runs = 0
    /\ config_report = NoReport
    /\ JvmIdle /\ PollIdle /\ RmIdle /\ InstIdle

NextConfig == config_update_call \/ checkconfig

SpecConfig == InitConfig /\ [][NextConfig]_vars

(***************************************************************************)
(* Patching and verifying jvm.options.                                     *)
(***************************************************************************)
\* set_jvm_heap: read, drop the heap lines, append the two flags, write, verify
JvmHeapUpdate ==
    /\ jvm_file' = new_lines(jvm_file)
    /\ jvm_once' = IF jvm_runs = 0 THEN jvm_file' ELSE jvm_once
    /\ jvm_runs' = jvm_runs + 1
    /\ jvm_report' = [all_correct |-> check_jvm_heap(jvm_file')]
    /\ UNCHANGED jvm_orig

\* a call of set_jvm_heap on its own, on the file as it is
set_jvm_heap_call ==
    /\ jvm_runs < MaxRuns
    /\ JvmHeapUpdate
    /\ UNCHANGED <<cfgVars, pollVars, rmVars, instVars>>

\* --checkjvm: check_jvm_heap alone
checkjvm ==
    /\ jvm_report' = [all_correct |-> check_jvm_heap(jvm_file)]
    /\ UNCHANGED <<jvm_file, jvm_orig, jvm_once, jvm_runs>>
    /\ UNCHANGED <<cfgVars, pollVars, rmVars, instVars>>

InitJvm ==
    /\ jvm_file \in JvmInputs
    /\ jvm_orig = jvm_file
    /\ jvm_once = <<>>
    /\ jvm_runs = 0
    /\ jvm_report = NoReport
    /\ CfgIdle /\ PollIdle /\ RmIdle /\ InstIdle

NextJvm == set_jvm_heap_call \/ checkjvm

SpecJvm == InitJvm /\ [][NextJvm]_vars

(***************************************************************************)
(* Properties of the two patchers and their verifiers.                     *)
(***************************************************************************)
\* the lines of a text file: the pieces between newlines, the newline that ends
\* the last line opening no further line
TextLines(s) ==
    LET pieces == SplitNL(s) IN
    IF pieces[Len(pieces)] = <<>> THEN SubSeq(pieces, 1, Len(pieces) - 1) ELSE pieces

\* the lines of the block of settings, without the newline that opens it
BlockLines == TextLines(Tail(new_config))

\* C1: running opensearch_config_update a second time leaves the file as the
\* first run wrote it.
C1_ConfigUpdateIdempotent == (config_runs = 2) => (config_file = config_once)

\* the content names none of the three settings
NamesNoSetting(content) ==
    \A key \in {NetworkHost, DiscoveryType, SecurityDisabled} : ~Contains(content, <<key>>)

\* C2: a file that names none of the three settings keeps all its lines, unchanged
\* and in order, and the block of settings follows them (after at most one blank
\* line).
C2_ConfigUpdateKeepsLines ==
    (config_runs = 1 /\ NamesNoSetting(config_orig)) =>
        \E sep \in {<<>>, << <<>> >>} :
            TextLines(config_file) = TextLines(config_orig) \o sep \o BlockLines

\* C3: after opensearch_config_update, verify_config finds the three settings with
\* their required values: it returns True, with nothing missing or incorrect.
C3_VerifyAfterUpdate ==
    (config_runs >= 1) =>
        /\ config_report.all_correct = TRUE
        /\ config_report.missing = {}
        /\ config_report.mismatched = {}

\* C3 happens: a file that did not pass verify_config passes it after the update
C3_Witness ==
    /\ config_runs = 1
    /\ config_report # NoReport
    /\ config_report.all_correct = TRUE
    /\ ~verify_config(config_orig).all_correct
    /\ Contains(config_orig, <<NetworkHost, ":", SP, "127.0.0.1">>)

\* the line sets `key`: it is not blank, not a comment, and of the form 'key: value'
SetsKey(line, key) ==
    LET t == Strip(line) IN
    t # <<>> /\ t[1] # "#" /\ StartsWith(t, key \o <<":", SP>>)

\* the numbers of the lines among `lines` that set `key`
SettingLines(lines, key) == {i \in 1..Len(lines) : SetsKey(lines[i], key)}

\* the value on the last line among `lines` that sets `key`
LastValue(lines, key) ==
    LET idx == SettingLines(lines, key)
        last == CHOOSE i \in idx : \A j \in idx : j <= i
        t == Strip(lines[last])
    IN  SubSeq(t, Len(key) + 3, Len(t))

\* C6: verify_config reports a key missing exactly when no line sets it, incorrect
\* exactly when the last line that sets it carries another value than the required
\* one, and returns True exactly when every key is set and the last line setting it
\* carries the required value.
C6_VerifyLastWins ==
    (config_report # NoReport) =>
        LET lines == SplitNL(config_file)
            correct == {key \in DOMAIN required_settings :
                            /\ SettingLines(lines, key) # {}
                            /\ LastValue(lines, key) = required_settings[key]}
            unset == {key \in DOMAIN required_settings : SettingLines(lines, key) = {}}
        IN  /\ config_report.missing = unset
            /\ config_report.mismatched = (DOMAIN required_settings \ correct) \ unset
            /\ (config_report.all_correct = TRUE) <=> (correct = DOMAIN required_settings)

\* C6 happens: network.host is set twice, first to the required value and last to
\* 127.0.0.1, and discovery.type is not set: one key incorrect, one missing
C6_Witness ==
    /\ config_report # NoReport
    /\ config_runs = 0
    /\ config_file = <<NetworkHost, ":", SP, "0.0.0.0", NL,
                        NetworkHost, ":", SP, "127.0.0.1", NL,
                        SecurityDisabled, ":", SP, "false">>
    /\ config_report.missing = {<<DiscoveryType>>}
    /\ config_report.mismatched = {<<NetworkHost>>}
    /\ config_report.all_correct = FALSE

\* C4: the file set_jvm_heap writes holds the lines of the input that are no heap
\* flag, unchanged and in order, and then the lines -Xms8g and -Xmx8g.
C4_HeapPatchResult ==
    (jvm_runs = 1) =>
        TextLines(jvm_file) =
            SelectSeq(TextLines(jvm_orig), IsNotHeapLine) \o << <<Xms, "8g">>, <<Xmx, "8g">> >>

\* C5: running set_jvm_heap a second time leaves the file as the first run wrote it.
C5_HeapPatchIdempotent == (jvm_runs = 2) => (jvm_file = jvm_once)

(***************************************************************************)
(* verify_installation: poll for the installed package and its two files.  *)
(***************************************************************************)
max_attempts == 90

\* the loop test of verify_installation, one round too many
verify_installation_loops_once_more(n) == n <= max_attempts

\* the loop test of verify_installation
verify_installation_loops(n) == n < max_attempts

\* one round of the loop: count it, run the three checks, return True when all
\* pass, otherwise sleep and loop
verify_installation_attempt ==
    /\ vi_pc = "polling"
    /\ verify_installation_loops(attempt)
    /\ attempt' = attempt + 1
    /\ \E yum_check \in BOOLEAN, config_check \in BOOLEAN, jvm_check \in BOOLEAN :
        /\ vi_last' = <<yum_check, config_check, jvm_check>>
        /\ vi_checks' = vi_checks + 1
        /\ IF yum_check /\ config_check /\ jvm_check
           THEN vi_pc' = "returned_true" /\ UNCHANGED vi_failed
           ELSE vi_pc' = "polling" /\ vi_failed' = vi_failed + 1
    /\ UNCHANGED <<cfgVars, jvmVars, rmVars, instVars>>

\* the loop ends without a passing round: raise
verify_installation_timeout ==
    /\ vi_pc = "polling"
    /\ ~verify_installation_loops(attempt)
    /\ vi_pc' = "raised"
    /\ UNCHANGED <<attempt, vi_checks, vi_failed, vi_last>>
    /\ UNCHANGED <<cfgVars, jvmVars, rmVars, instVars>>

InitVerifyInstall ==
    /\ attempt = 0
    /\ vi_pc = "polling"
    /\ vi_checks = 0
    /\ vi_failed = 0
    /\ vi_last = <<>>
    /\ CfgIdle /\ JvmIdle /\ RmIdle /\ InstIdle

NextVerifyInstall == verify_installation_attempt \/ verify_installation_timeout

\* the loop is sequential code: a round that can run does run
SpecVerifyInstall ==
    InitVerifyInstall /\ [][NextVerifyInstall]_vars /\ WF_vars(NextVerifyInstall)

\* C7: verify_installation ends; it runs at most 90 rounds of checks, returns True
\* in the first round in which the three checks pass and runs no round after it,
\* and raises exactly when 90 rounds have failed.
C7_BoundedPolling ==
    /\ [](vi_checks <= 90)
    /\ []((vi_pc = "returned_true") =>
            /\ vi_last = <<TRUE, TRUE, TRUE>>
            /\ vi_checks = vi_failed + 1)
    /\ []((vi_pc = "polling") => (vi_checks = vi_failed))
    /\ [][(vi_pc \in {"returned_true", "raised"}) => (vi_checks' = vi_checks)]_vars
    /\ []((vi_pc = "raised") => (vi_failed = 90))
    /\ ((vi_failed = 90) ~> (vi_pc = "raised"))
    /\ <>(vi_pc \in {"returned_true", "raised"})

\* C7 happens: the three checks pass in the last round allowed
C7_Witness == vi_pc = "returned_true" /\ vi_checks = 90 /\ vi_failed = 89

(***************************************************************************)
(* run_removal: stop, disable, uninstall and delete, for the dashboards    *)
(* and then for OpenSearch.                                                *)
(***************************************************************************)
DASHBOARD_SERVICE_NAME == "opensearch-dashboards"
OPENSEARCH_SERVICE_NAME == "opensearch"
Services == {DASHBOARD_SERVICE_NAME, OPENSEARCH_SERVICE_NAME}

\* run_removal with the package removed before the service is disabled
run_removal_steps_swapped ==
    << <<"stop_service", DASHBOARD_SERVICE_NAME>>,
       <<"remove_package", DASHBOARD_SERVICE_NAME>>,
       <<"disable_service", DASHBOARD_SERVICE_NAME>>,
       <<"remove_config_directory", DASHBOARD_SERVICE_NAME>>,
       <<"stop_service", OPENSEARCH_SERVICE_NAME>>,
       <<"remove_package", OPENSEARCH_SERVICE_NAME>>,
       <<"disable_service", OPENSEARCH_SERVICE_NAME>>,
       <<"remove_config_directory", OPENSEARCH_SERVICE_NAME>> >>

\* the calls of run_removal after check_root, in order: handler and service
run_removal_steps ==
    << <<"stop_service", DASHBOARD_SERVICE_NAME>>,
       <<"disable_service", DASHBOARD_SERVICE_NAME>>,
       <<"remove_package", DASHBOARD_SERVICE_NAME>>,
       <<"remove_config_directory", DASHBOARD_SERVICE_NAME>>,
       <<"stop_service", OPENSEARCH_SERVICE_NAME>>,
       <<"disable_service", OPENSEARCH_SERVICE_NAME>>,
       <<"remove_package", OPENSEARCH_SERVICE_NAME>>,
       <<"remove_config_directory", OPENSEARCH_SERVICE_NAME>> >>

\* run_removal is at a call of `handler`
RmAt(handler) ==
    /\ ~rm_exited
    /\ rm_pc \in 1..Len(run_removal_steps)
    /\ run_removal_steps[rm_pc][1] = handler

\* the service the current call is for
RmService == run_removal_steps[rm_pc][2]

\* the call returned: on to the next one, or to the end of run_removal
RmReturn == rm_pc' = rm_pc + 1 /\ UNCHANGED rm_exited

\* sys.exit(1)
RmExit == rm_exited' = TRUE /\ UNCHANGED rm_pc

\* run_removal returned
RmDone == ~rm_exited /\ rm_pc = Len(run_removal_steps) + 1

\* the entry of rm_log for a call: `before` is what the handler tested first (the
\* service is active, the directory exists; TRUE when it tests nothing), `ran` is
\* whether it ran its command, `outcome` is "ok", "failed" or "noop"
RmEntry(handler, before, ran, outcome) ==
    [handler |-> handler, service |-> RmService, before |-> before,
     ran |-> ran, outcome |-> outcome]

check_root ==
    /\ rm_pc = 0 /\ ~rm_exited
    /\ IF is_root THEN RmReturn ELSE RmExit
    /\ UNCHANGED <<is_root, svc_active, dir_exists, rm_log>>
    /\ UNCHANGED <<cfgVars, jvmVars, pollVars, instVars>>

stop_service ==
    /\ RmAt("stop_service")
    /\ IF svc_active[RmService]
       THEN \E ok \in BOOLEAN :
              IF ok
              THEN /\ svc_active' = [svc_active EXCEPT ![RmService] = FALSE]
                   /\ rm_log' = Append(rm_log, RmEntry("stop_service", TRUE, TRUE, "ok"))
                   /\ RmReturn
              ELSE /\ rm_log' = Append(rm_log, RmEntry("stop_service", TRUE, TRUE, "failed"))
                   /\ RmExit
                   /\ UNCHANGED svc_active
       ELSE /\ rm_log' = Append(rm_log, RmEntry("stop_service", FALSE, FALSE, "noop"))
            /\ RmReturn
            /\ UNCHANGED svc_active
    /\ UNCHANGED <<is_root, dir_exists>>
    /\ UNCHANGED <<cfgVars, jvmVars, pollVars, instVars>>

\* a failure to disable is printed and the handler returns
disable_service ==
    /\ RmAt("disable_service")
    /\ \E ok \in BOOLEAN :
        rm_log' = Append(rm_log,
                    RmEntry("disable_service", TRUE, TRUE, IF ok THEN "ok" ELSE "failed"))
    /\ RmReturn
    /\ UNCHANGED <<is_root, svc_active, dir_exists>>
    /\ UNCHANGED <<cfgVars, jvmVars, pollVars, instVars>>

remove_package ==
    /\ RmAt("remove_package")
    /\ \E ok \in BOOLEAN :
        IF ok
        THEN /\ rm_log' = Append(rm_log, RmEntry("remove_package", TRUE, TRUE, "ok"))
             /\ RmReturn
        ELSE /\ rm_log' = Append(rm_log, RmEntry("remove_package", TRUE, TRUE, "failed"))
             /\ RmExit
    /\ UNCHANGED <<is_root, svc_active, dir_exists>>
    /\ UNCHANGED <<cfgVars, jvmVars, pollVars, instVars>>

remove_config_directory ==
    /\ RmAt("remove_config_directory")
    /\ IF dir_exists[RmService]
       THEN \E ok \in BOOLEAN :
              IF ok
              THEN /\ dir_exists' = [dir_exists EXCEPT ![RmService] = FALSE]
                   /\ rm_log' = Append(rm_log,
                                  RmEntry("remove_config_directory", TRUE, TRUE, "ok"))
                   /\ RmReturn
              ELSE /\ rm_log' = Append(rm_log,
                                  RmEntry("remove_config_directory", TRUE, TRUE, "failed"))
                   /\ RmExit
                   /\ UNCHANGED dir_exists
       ELSE /\ rm_log' = Append(rm_log,
                            RmEntry("remove_config_directory", FALSE, FALSE, "noop"))
            /\ RmReturn
            /\ UNCHANGED dir_exists
    /\ UNCHANGED <<is_root, svc_active>>
    /\ UNCHANGED <<cfgVars, jvmVars, pollVars, instVars>>

InitRemoval ==
    /\ rm_pc = 0
    /\ rm_exited = FALSE
    /\ is_root \in BOOLEAN
    /\ svc_active \in [Services -> BOOLEAN]
    /\ dir_exists \in [Services -> BOOLEAN]
    /\ rm_log = <<>>
    /\ CfgIdle /\ JvmIdle /\ PollIdle /\ InstIdle

NextRemoval ==
    \/ check_root
    \/ stop_service
    \/ disable_service
    \/ remove_package
    \/ remove_config_directory

SpecRemoval == InitRemoval /\ [][NextRemoval]_vars

\* C8: a step of the removal that fails is fatal: it is the last step of the run
\* (the run has exited and no later step was called).
C8_RemovalFailFast ==
    \A i \in 1..Len(rm_log) :
        (rm_log[i].outcome = "failed") => (i = Len(rm_log) /\ rm_exited)

\* the handlers of a service, in the order the specification gives
RemovalOrder ==
    <<"stop_service", "disable_service", "remove_package", "remove_config_directory">>

\* C9: a removal that completes has called stop, disable, uninstall and delete for
\* the dashboards and then the same four for OpenSearch; stop runs its command only
\* for a service reported active and delete only for a directory that exists, and
\* in the other case the step does nothing and is no error.
C9_RemovalOrder ==
    /\ RmDone =>
         /\ Len(rm_log) = 8
         /\ \A i \in 1..Len(rm_log) :
              /\ rm_log[i].handler = RemovalOrder[((i - 1) % 4) + 1]
              /\ rm_log[i].service =
                    IF i <= 4 THEN "opensearch-dashboards" ELSE "opensearch"
    /\ \A i \in 1..Len(rm_log) :
         (rm_log[i].handler \in {"stop_service", "remove_config_directory"}) =>
            /\ rm_log[i].ran = rm_log[i].before
            /\ (~rm_log[i].before) =>
                 /\ rm_log[i].outcome = "noop"
                 /\ rm_exited => (i < Len(rm_log))

\* C9 happens: a completed removal in which the dashboards were running and
\* OpenSearch was not, and one of the two directories did not exist
C9_Witness ==
    /\ RmDone
    /\ rm_log[1].ran /\ ~rm_log[5].ran
    /\ ~rm_log[4].ran /\ rm_log[8].ran

(***************************************************************************)
(* run_installation: opensearch_install, service_wrapper,                  *)
(* configuration_wrapper, dashboard_install.  A step that raises or calls  *)
(* sys.exit ends the run ("aborted").                                      *)
(***************************************************************************)
\* the step ran with this outcome
Logged(step, outcome) == inst_log' = Append(inst_log, [step |-> step, outcome |-> outcome])

\* the files the installer may find in /etc/opensearch
InstallConfigInputs ==
    { <<"#", SP, "a comment", NL, "#", NetworkHost, ":", SP, "192.168.0.1", NL>>,
      <<NetworkHost, ":", SP, "127.0.0.1", NL>> }

InstallJvmInputs ==
    { <<Xms, "1g", NL, Xmx, "1g", NL, "-other", NL>>,
      <<"-other">> }

\* download_opensearch: skip when the file is there, otherwise curl, check, chmod
download_opensearch ==
    /\ pc = "download_opensearch"
    /\ IF rpm_file = "present"
       THEN /\ Logged("download_opensearch", "skipped")
            /\ pc' = "install_deps"
            /\ UNCHANGED rpm_file
       ELSE \E outcome \in {"ok", "curl_failed", "empty_file", "chmod_failed"} :
            /\ Logged("download_opensearch", outcome)
            /\ pc' = IF outcome = "ok" THEN "install_deps" ELSE "aborted"
            /\ rpm_file' = CASE outcome = "curl_failed" -> rpm_file
                             [] outcome = "empty_file" -> "empty"
                             [] OTHER -> "present"
    /\ UNCHANGED <<installed, enabled, started, proc_main, children, return_code, elapsed>>
    /\ UNCHANGED <<cfgVars, jvmVars, pollVars, rmVars>>

\* install_deps: yum install of the JDK; a failure is raised
install_deps ==
    /\ pc = "install_deps"
    /\ \E ok \in BOOLEAN :
        /\ Logged("install_deps", IF ok THEN "ok" ELSE "failed")
        /\ pc' = IF ok THEN "popen" ELSE "aborted"
    /\ UNCHANGED <<rpm_file, installed, enabled, started,
                   proc_main, children, return_code, elapsed>>
    /\ UNCHANGED <<cfgVars, jvmVars, pollVars, rmVars>>

\* the kinds of process that descend from the shell: a child of it (ppid() is the
\* pid of the shell) or a process further down (its parent is such a child), in a
\* status other than zombie ("running") or a zombie
ProcKinds == [ppid : {"pid", "child"}, status : {"running", "zombie"}]

\* the process tables below the shell: a process further down has a parent
ProcTables ==
    {t \in SUBSET ProcKinds :
        (\E child \in t : child.ppid = "child") => (\E child \in t : child.ppid = "pid")}

\* opensearch_install: start yum localinstall in a shell and note the time
opensearch_install_popen ==
    /\ pc = "popen"
    /\ proc_main' = "running"
    /\ children' \in ProcTables
    /\ elapsed' = 0
    /\ pc' = "monitor"
    /\ UNCHANGED <<inst_log, rpm_file, installed, enabled, started, return_code>>
    /\ UNCHANGED <<cfgVars, jvmVars, pollVars, rmVars>>

\* the shell exits: it stays a zombie until process.wait() reaps it
process_exits ==
    /\ proc_main = "running"
    /\ proc_main' = "zombie"
    /\ return_code' \in {0, 1}
    /\ UNCHANGED <<pc, inst_log, rpm_file, installed, enabled, started, children, elapsed>>
    /\ UNCHANGED <<cfgVars, jvmVars, pollVars, rmVars>>

\* a process that descends from the shell exits and stays a zombie
children_exit ==
    /\ proc_main \in {"running", "zombie"}
    /\ \E child \in children :
        /\ child.status = "running"
        /\ children' = (children \ {child}) \cup {[child EXCEPT !.status = "zombie"]}
    /\ UNCHANGED <<pc, inst_log, rpm_file, installed, enabled, started,
                   proc_main, return_code, elapsed>>
    /\ UNCHANGED <<cfgVars, jvmVars, pollVars, rmVars>>

max_wait == 300

\* is_running(pid) where a zombie shell counts as alive when it has descendants
is_running_counts_zombies ==
    IF proc_main = "running" THEN TRUE
    ELSE IF proc_main = "zombie" THEN children # {}
    ELSE IF proc_main = "gone"
         THEN \E child \in children : child.ppid = "pid" /\ child.status # "zombie"
    ELSE FALSE

\* is_running(pid): the shell exists and is no zombie; or it is a zombie and one
\* of process.children(recursive=True) is no zombie; or psutil.Process(pid) raises
\* NoSuchProcess and a process with ppid() = pid is no zombie
is_running ==
    IF proc_main = "running" THEN TRUE
    ELSE IF proc_main = "zombie"
         THEN \E child \in children : child.status # "zombie"
    ELSE IF proc_main = "gone"
         THEN \E child \in children : child.ppid = "pid" /\ child.status # "zombie"
    ELSE FALSE

\* one turn of the monitor loop: leave it when the time is up or nothing runs any
\* more, otherwise sleep 5 seconds
opensearch_install_monitor ==
    /\ pc = "monitor"
    /\ IF elapsed < max_wait /\ is_running
       THEN elapsed' = elapsed + 5 /\ UNCHANGED pc
       ELSE pc' = "wait" /\ UNCHANGED elapsed
    /\ UNCHANGED <<inst_log, rpm_file, installed, enabled, started,
                   proc_main, children, return_code>>
    /\ UNCHANGED <<cfgVars, jvmVars, pollVars, rmVars>>

\* process.wait() returns and the run goes on whatever the exit status was
opensearch_install_wait_goes_on ==
    /\ pc = "wait"
    /\ proc_main # "running"
    /\ proc_main' = "gone"
    /\ Logged("opensearch_install", IF return_code # 0 THEN "failed" ELSE "ok")
    /\ pc' = "service_enable"
    /\ installed' = IF return_code # 0 THEN installed
                    ELSE installed \cup {OPENSEARCH_SERVICE_NAME}
    /\ UNCHANGED <<rpm_file, enabled, started, children, return_code, elapsed>>
    /\ UNCHANGED <<cfgVars, jvmVars, pollVars, rmVars>>

\* process.wait() returns once the shell has exited; a non-zero status is raised
opensearch_install_wait ==
    /\ pc = "wait"
    /\ proc_main # "running"
    /\ proc_main' = "gone"
    /\ IF return_code # 0
       THEN /\ Logged("opensearch_install", "failed")
            /\ pc' = "aborted"
            /\ UNCHANGED installed
       ELSE /\ Logged("opensearch_install", "ok")
            /\ pc' = "service_enable"
            /\ installed' = installed \cup {OPENSEARCH_SERVICE_NAME}
    /\ UNCHANGED <<rpm_file, enabled, started, children, return_code, elapsed>>
    /\ UNCHANGED <<cfgVars, jvmVars, pollVars, rmVars>>

\* service_enable: systemctl enable; a failure calls sys.exit(1)
service_enable ==
    /\ pc = "service_enable"
    /\ \E ok \in BOOLEAN :
        /\ Logged("service_enable", IF ok THEN "ok" ELSE "failed")
        /\ pc' = IF ok THEN "service_start" ELSE "aborted"
        /\ enabled' = IF ok THEN enabled \cup {OPENSEARCH_SERVICE_NAME} ELSE enabled
    /\ UNCHANGED <<rpm_file, installed, started, proc_main, children, return_code, elapsed>>
    /\ UNCHANGED <<cfgVars, jvmVars, pollVars, rmVars>>

\* service_start: systemctl start; a failure calls sys.exit(1)
service_start ==
    /\ pc = "service_start"
    /\ \E ok \in BOOLEAN :
        /\ Logged("service_start", IF ok THEN "ok" ELSE "failed")
        /\ pc' = IF ok THEN "service_verify" ELSE "aborted"
        /\ started' = IF ok THEN started \cup {OPENSEARCH_SERVICE_NAME} ELSE started
    /\ UNCHANGED <<rpm_file, installed, enabled, proc_main, children, return_code, elapsed>>
    /\ UNCHANGED <<cfgVars, jvmVars, pollVars, rmVars>>

\* service_verify: systemctl status after 30 seconds; a failure calls sys.exit(1)
service_verify ==
    /\ pc = "service_verify"
    /\ \E ok \in BOOLEAN :
        /\ Logged("service_verify", IF ok THEN "ok" ELSE "failed")
        /\ pc' = IF ok THEN "opensearch_config_update" ELSE "aborted"
    /\ UNCHANGED <<rpm_file, installed, enabled, started,
                   proc_main, children, return_code, elapsed>>
    /\ UNCHANGED <<cfgVars, jvmVars, pollVars, rmVars>>

\* opensearch_config_update: an error reading or writing the file is raised again
opensearch_config_update ==
    /\ pc = "opensearch_config_update"
    /\ \E io \in {"ok", "read_error", "write_error"} :
        /\ Logged("opensearch_config_update", io)
        /\ IF io = "ok"
           THEN ConfigUpdate /\ pc' = "set_jvm_heap"
           ELSE UNCHANGED cfgVars /\ pc' = "aborted"
    /\ UNCHANGED <<rpm_file, installed, enabled, started,
                   proc_main, children, return_code, elapsed>>
    /\ UNCHANGED <<jvmVars, pollVars, rmVars>>

\* set_jvm_heap: an error reading or writing the file is raised again
set_jvm_heap ==
    /\ pc = "set_jvm_heap"
    /\ \E io \in {"ok", "read_error", "write_error"} :
        /\ Logged("set_jvm_heap", io)
        /\ IF io = "ok"
           THEN JvmHeapUpdate /\ pc' = "api_verify"
           ELSE UNCHANGED jvmVars /\ pc' = "aborted"
    /\ UNCHANGED <<rpm_file, installed, enabled, started,
                   proc_main, children, return_code, elapsed>>
    /\ UNCHANGED <<cfgVars, pollVars, rmVars>>

\* what curl and the server may answer: whether curl succeeded, what json.loads
\* makes of the body ("invalid": not JSON), and for an object its tagline and
\* the kind of its "version" field
ApiProbes ==
    { [curl_ok |-> FALSE, json |-> "invalid", tagline |-> "absent", version |-> "absent"],
      [curl_ok |-> TRUE, json |-> "invalid", tagline |-> "absent", version |-> "absent"],
      [curl_ok |-> TRUE, json |-> "list", tagline |-> "absent", version |-> "absent"],
      [curl_ok |-> TRUE, json |-> "string", tagline |-> "absent", version |-> "absent"],
      [curl_ok |-> TRUE, json |-> "number", tagline |-> "absent", version |-> "absent"],
      [curl_ok |-> TRUE, json |-> "null", tagline |-> "absent", version |-> "absent"],
      [curl_ok |-> TRUE, json |-> "object", tagline |-> "absent", version |-> "absent"],
      [curl_ok |-> TRUE, json |-> "object", tagline |-> "other", version |-> "object"],
      [curl_ok |-> TRUE, json |-> "object", tagline |-> "expected", version |-> "object"],
      [curl_ok |-> TRUE, json |-> "object", tagline |-> "expected", version |-> "absent"],
      [curl_ok |-> TRUE, json |-> "object", tagline |-> "expected", version |-> "string"] }

\* the result of api_verify for a probe: "True", "False", or the exception that
\* leaves it (only CalledProcessError and JSONDecodeError are caught; .get on a
\* value that is no object raises AttributeError)
api_verify_result(probe) ==
    IF ~probe.curl_ok THEN "False"
    ELSE IF probe.json = "invalid" THEN "False"
    ELSE IF probe.json # "object" THEN "AttributeError"
    ELSE IF probe.tagline # "expected" THEN "False"
    ELSE IF probe.version \in {"absent", "object"} THEN "True"
    ELSE "AttributeError"

api_verify ==
    /\ pc = "api_verify"
    /\ \E probe \in ApiProbes :
        /\ inst_log' = Append(inst_log, [step |-> "api_verify",
                                         outcome |-> api_verify_result(probe),
                                         probe |-> probe])
        /\ pc' = IF api_verify_result(probe) \in {"True", "False"}
                 THEN "plugins_verify" ELSE "aborted"
    /\ UNCHANGED <<rpm_file, installed, enabled, started,
                   proc_main, children, return_code, elapsed>>
    /\ UNCHANGED <<cfgVars, jvmVars, pollVars, rmVars>>

\* plugins_verify: True, or False when curl fails
plugins_verify ==
    /\ pc = "plugins_verify"
    /\ \E curl_ok \in BOOLEAN :
        Logged("plugins_verify", IF curl_ok THEN "True" ELSE "False")
    /\ pc' = "dashboard_install"
    /\ UNCHANGED <<rpm_file, installed, enabled, started,
                   proc_main, children, return_code, elapsed>>
    /\ UNCHANGED <<cfgVars, jvmVars, pollVars, rmVars>>

\* dashboard_install: enable, start and check the dashboards service; the first
\* command that fails makes it return False
dashboard_install ==
    /\ pc = "dashboard_install"
    /\ \E outcome \in {"enable_failed", "start_failed", "status_failed", "True"} :
        /\ Logged("dashboard_install", outcome)
        /\ enabled' = IF outcome # "enable_failed"
                      THEN enabled \cup {DASHBOARD_SERVICE_NAME} ELSE enabled
        /\ started' = IF outcome \in {"status_failed", "True"}
                      THEN started \cup {DASHBOARD_SERVICE_NAME} ELSE started
    /\ pc' = "done"
    /\ UNCHANGED <<rpm_file, installed, proc_main, children, return_code, elapsed>>
    /\ UNCHANGED <<cfgVars, jvmVars, pollVars, rmVars>>

Init ==
    /\ pc = "download_opensearch"
    /\ inst_log = <<>>
    /\ rpm_file \in {"absent", "empty", "present"}
    /\ installed = {}
    /\ enabled = {}
    /\ started = {}
    /\ proc_main = "none"
    /\ children = {}
    /\ return_code = 0
    /\ elapsed = 0
    /\ config_file \in InstallConfigInputs
    /\ config_orig = config_file
    /\ config_once = <<>>
    /\ config_runs = 0
    /\ config_report = NoReport
    /\ jvm_file \in InstallJvmInputs
    /\ jvm_orig = jvm_file
    /\ jvm_once = <<>>
    /\ jvm_runs = 0
    /\ jvm_report = NoReport
    /\ PollIdle /\ RmIdle

Next ==
    \/ download_opensearch
    \/ install_deps
    \/ opensearch_install_popen
    \/ process_exits
    \/ children_exit
    \/ opensearch_install_monitor
    \/ opensearch_install_wait
    \/ service_enable
    \/ service_start
    \/ service_verify
    \/ opensearch_config_update
    \/ set_jvm_heap
    \/ api_verify
    \/ plugins_verify
    \/ dashboard_install

Spec == Init /\ [][Next]_vars

\* C10: whatever the probe answers, api_verify returns True or False and raises
\* nothing, so the run goes on to plugins_verify (and dashboard_install).
C10_ApiVerifySoft ==
    \A i \in 1..Len(inst_log) :
        (inst_log[i].step = "api_verify") =>
            /\ inst_log[i].outcome \in {"True", "False"}
            /\ (pc = "aborted") => (i < Len(inst_log))

\* the outcomes of the install and configuration steps that are failures
StepFailed(entry) ==
    \/ /\ entry.step = "download_opensearch"
       /\ entry.outcome \in {"curl_failed", "empty_file", "chmod_failed"}
    \/ /\ entry.step \in {"install_deps", "opensearch_install",
                          "service_enable", "service_start", "service_verify"}
       /\ entry.outcome = "failed"
    \/ /\ entry.step \in {"opensearch_config_update", "set_jvm_heap"}
       /\ entry.outcome \in {"read_error", "write_error"}

\* the step ran in this run and failed
HasFailed(step) ==
    \E i \in 1..Len(inst_log) : inst_log[i].step = step /\ StepFailed(inst_log[i])

\* C11: a failed download, dependency install, package install, service
\* enable/start/status, config patch or heap patch is the last step of the run:
\* the run is aborted and nothing changes afterwards; after a failed package
\* install no service is enabled or started, and after a failed config patch the
\* flags file is as it was.
C11_FailFast ==
    /\ [](\A i \in 1..Len(inst_log) :
            StepFailed(inst_log[i]) => (i = Len(inst_log) /\ pc = "aborted"))
    /\ [](HasFailed("opensearch_install") => (enabled = {} /\ started = {}))
    /\ [](HasFailed("opensearch_config_update") => (jvm_file = jvm_orig /\ jvm_runs = 0))
    /\ [][(pc = "aborted") =>
            UNCHANGED <<pc, inst_log, installed, enabled, started, cfgVars, jvmVars>>]_vars

\* the package install failed and the run stopped there
C11_Witness ==
    /\ pc = "aborted"
    /\ HasFailed("opensearch_install")
    /\ inst_log[Len(inst_log)].step = "opensearch_install"
    /\ enabled = {}

\* the positions of a step in the log of the run
StepsAt(step) == {i \in 1..Len(inst_log) : inst_log[i].step = step}

\* C12: the config file and the flags file are patched (and verified) before the
\* service is started, and the API is probed after the start: the service is
\* started only when both patches have run, and in the log both patches come
\* before service_start and api_verify comes after it.
C12_PatchBeforeStart ==
    /\ (OPENSEARCH_SERVICE_NAME \in started) => (config_runs >= 1 /\ jvm_runs >= 1)
    /\ \A s \in StepsAt("service_start") :
        /\ \A c \in StepsAt("opensearch_config_update") : c < s
        /\ \A h \in StepsAt("set_jvm_heap") : h < s
        /\ \A a \in StepsAt("api_verify") : s < a
    /\ \A c \in StepsAt("opensearch_config_update") :
        \A h \in StepsAt("set_jvm_heap") : c < h

\* C13: when the install process was alive at every check and the elapsed time
\* has reached max_wait, the monitor has timed out: the run does not block in
\* process.wait() on the process that still runs, and opensearch_install ends
\* with a timeout error, never with success or another outcome.
C13_MonitorTimeout ==
    (elapsed >= max_wait) =>
        /\ ~(pc = "wait" /\ proc_main = "running")
        /\ \A i \in StepsAt("opensearch_install") : inst_log[i].outcome = "timeout"
        /\ pc \in {"monitor", "wait", "aborted"}

\* the line is a key line: its trimmed content begins with '<key>:'
IsKeyLine(line) ==
    \E key \in {NetworkHost, DiscoveryType, SecurityDisabled} :
        StartsWith(Strip(line), <<key, ":">>)

\* C14: a line of the file that holds '<key>:' without beginning with it (and
\* does not itself follow a line holding '<key>:') is no key line, so an
\* unrelated, non-blank line that follows it is still in the file after
\* opensearch_config_update (compared without surrounding blanks).
C14_KeyLineMatching ==
    (config_runs = 1) =>
        LET lines == SplitNL(config_orig)
            out == TextLines(config_file)
        IN  \A i \in 1..(Len(lines) - 1) :
                ( /\ HasSetting(lines[i])
                  /\ ~IsKeyLine(lines[i])
                  /\ (i > 1 => ~HasSetting(lines[i - 1]))
                  /\ NamesNoSetting(lines[i + 1])
                  /\ Strip(lines[i + 1]) # <<>> )
                => \E j \in 1..Len(out) : Strip(out[j]) = Strip(lines[i + 1])

\* C16: the dashboards service is enabled or started only when the dashboard
\* package was downloaded and installed before in the same run.
C16_DashboardAfterInstall ==
    (DASHBOARD_SERVICE_NAME \in (enabled \cup started)) =>
        /\ DASHBOARD_SERVICE_NAME \in installed
        /\ \E d \in StepsAt("download_dashboard") :
            \A e \in StepsAt("dashboard_install") : d < e

\* the numbers of the lines among `lines` that start with the heap flag `key`
HeapLines(lines, key) == {i \in 1..Len(lines) : StartsWith(Strip(lines[i]), <<key>>)}

\* C17: check_jvm_heap run right after set_jvm_heap returns True: the written
\* file has lines starting with -Xms and with -Xmx, and the last line of each
\* kind carries 8g after the prefix.
C17_HeapRoundTrip ==
    (jvm_runs >= 1) =>
        LET lines == TextLines(jvm_file) IN
        /\ jvm_report.all_correct = TRUE
        /\ \A key \in {Xms, Xmx} :
            /\ HeapLines(lines, key) # {}
            /\ \A i \in HeapLines(lines, key) :
                (\A j \in HeapLines(lines, key) : j <= i) =>
                    Tail(Strip(lines[i])) = <<"8g">>

\* the numbers of the lines among `lines` that are no comment and begin, blanks
\* aside, with 'key:'
KeyLines(lines, key) ==
    {i \in 1..Len(lines) :
        LET t == Strip(lines[i]) IN ~StartsWith(t, <<"#">>) /\ StartsWith(t, key \o <<":">>)}

\* C18: after one or more runs of opensearch_config_update the file has, for each
\* of the three keys, exactly one line that is no comment and begins with 'key:',
\* and this line is 'key: <required value>'.
C18_UniqueSettings ==
    (config_runs >= 1) =>
        LET lines == SplitNL(config_file) IN
        \A key \in DOMAIN required_settings :
            /\ Cardinality(KeyLines(lines, key)) = 1
            /\ \A i \in KeyLines(lines, key) :
                lines[i] = key \o <<":", SP>> \o required_settings[key]

\* C18 happens: a file that set network.host twice, one of them to 127.0.0.1,
\* has been patched twice
C18_Witness ==
    /\ config_runs >= 2
    /\ Cardinality(KeyLines(SplitNL(config_orig), <<NetworkHost>>)) >= 2
    /\ Contains(config_orig, <<NetworkHost, ":", SP, "127.0.0.1">>)
    /\ Cardinality(KeyLines(SplitNL(config_file), <<NetworkHost>>)) = 1

(***************************************************************************)
(* The monitor loop of opensearch_install against every process table:     *)
(* the shell running, a zombie or gone, with any processes below it.       *)
(***************************************************************************)
InitIsRunning ==
    /\ pc = "monitor"
    /\ inst_log = <<>>
    /\ rpm_file = "present"
    /\ installed = {}
    /\ enabled = {}
    /\ started = {}
    /\ proc_main \in {"running", "zombie", "gone"}
    /\ children \in ProcTables
    /\ return_code = 0
    /\ elapsed = 0
    /\ CfgIdle /\ JvmIdle /\ PollIdle /\ RmIdle

NextIsRunning == opensearch_install_monitor \/ process_exits \/ children_exit

SpecIsRunning == InitIsRunning /\ [][NextIsRunning]_vars

\* the shell or what it started is alive, in the three cases of the description:
\* (a) the process exists and is no zombie, (b) it is a zombie and a descendant
\* of it is no zombie, (c) it does not exist and a process whose parent id is
\* its pid is no zombie
ProcessAlive ==
    \/ proc_main \notin {"none", "gone", "zombie"}
    \/ /\ proc_main = "zombie"
       /\ {child \in children : child.status = "running"} # {}
    \/ /\ proc_main = "gone"
       /\ {child \in children : child.ppid = "pid"} \ {[ppid |-> "pid", status |-> "zombie"]} # {}

\* C15: a turn of the monitor loop before the time is up sleeps and polls again
\* exactly when the process table is in one of the cases (a), (b), (c), that is
\* when is_running(pid) returns True; in every other case is_running(pid)
\* returns False and the loop is left.
C15_IsRunning ==
    [][(pc = "monitor" /\ elapsed < max_wait /\ <<pc, elapsed>>' # <<pc, elapsed>>) =>
          /\ is_running <=> ProcessAlive
          /\ IF ProcessAlive
             THEN pc' = "monitor" /\ elapsed' = elapsed + 5
             ELSE pc' = "wait" /\ elapsed' = elapsed]_vars

\* C15 happens: the loop was left at once for a shell that is gone with only a
\* zombie child and a live process further down
C15_Witness ==
    /\ pc = "wait"
    /\ elapsed = 0
    /\ proc_main = "gone"
    /\ children = {[ppid |-> "pid", status |-> "zombie"],
                   [ppid |-> "child", status |-> "running"]}

====
